---- MODULE Spec2Model ----
(***************************************************************************)
(* FoodGrid map layer: the DeckGL pointer router, tooltip state, tooltip   *)
(* placement and cursor (MapView.tsx, layers.ts), the MapLibre             *)
(* feature-state synchroniser (useMapInteraction.ts), the container-ready  *)
(* guard (MapView.tsx), the zustand application store (useMapStore),       *)
(* App.handleTractSelected, the census tract builder with its risk         *)
(* synthesizer (censusTracts.ts) and the live-data overlay (useTracts).    *)
(***************************************************************************)
EXTENDS Integers, Sequences, FiniteSets, TLC

(* ---------------------------------------------------------------------- *)
(* Bounds                                                                  *)
(* ---------------------------------------------------------------------- *)

\* number of polygon features in the 'tracts' source
NumTracts == 3

\* container widths/heights reported by the ResizeObserver are 0..MaxDim
MaxDim == 1

\* the hover history keeps the last HoverTrailLen hover results
HoverTrailLen == 3

\* keys given to deterministicRisk end in up to MaxKeyLen free characters
MaxKeyLen == 3

\* TRACTCE values of raw features have up to MaxCodeLen characters
MaxCodeLen == 2

\* raw feature collections have up to MaxRaw features
MaxRaw == 2

\* container widths of the tooltip placement are 0 and SizeStep * (1..MaxSizeSteps)
SizeStep == 128

MaxSizeSteps == 3

\* objects on each pickable DeckGL layer
MaxObjects == 2

\* words in a raw store type
MaxTypeWords == 2

(* ---------------------------------------------------------------------- *)
(* Data                                                                    *)
(* ---------------------------------------------------------------------- *)

\* JavaScript null
Null == 0

TractIds == 1..NumTracts

Dims == 0..MaxDim

\* the canvas pixel at the top-left corner of the container
TopLeft == <<0, 0>>

(* ---------------------------------------------------------------------- *)
(* Strings: sequences of one-character strings                             *)
(* ---------------------------------------------------------------------- *)

DigitChars == <<"0", "1", "2", "3", "4", "5", "6", "7", "8", "9">>

Digits == {DigitChars[k] : k \in DOMAIN DigitChars}

IsDigit(c) == c \in Digits

DigitVal(c) == (CHOOSE k \in DOMAIN DigitChars : DigitChars[k] = c) - 1

\* the characters keys are written with: the digits and one letter
Alphabet == Digits \cup {"x"}

\* all strings of exactly n characters of alphabet
RECURSIVE StringsOfLen(_, _)
StringsOfLen(alphabet, n) ==
    IF n = 0 THEN {<<>>}
    ELSE {Append(t, c) : t \in StringsOfLen(alphabet, n - 1), c \in alphabet}

\* all strings of at most n characters of alphabet
StringsUpTo(alphabet, n) == UNION {StringsOfLen(alphabet, k) : k \in 0..n}

\* str.slice(-k)
SliceLast(str, k) ==
    IF Len(str) <= k THEN str ELSE SubSeq(str, Len(str) - k + 1, Len(str))

\* the longest prefix of str made of digits
RECURSIVE DigitPrefix(_)
DigitPrefix(str) ==
    IF str = <<>> \/ ~IsDigit(Head(str)) THEN <<>>
    ELSE <<Head(str)>> \o DigitPrefix(Tail(str))

RECURSIVE DecimalValue(_)
DecimalValue(ds) ==
    IF ds = <<>> THEN 0
    ELSE 10 * DecimalValue(SubSeq(ds, 1, Len(ds) - 1)) + DigitVal(ds[Len(ds)])

\* parseInt(str, 10): the value of the leading digits; NaN when there are none
parseInt(str) ==
    LET ds == DigitPrefix(str) IN
    IF ds = <<>> THEN [nan |-> TRUE, val |-> 0] ELSE [nan |-> FALSE, val |-> DecimalValue(ds)]

\* parsed || fallback: NaN and 0 are falsy
OrElse(parsed, fallback) ==
    IF parsed.nan \/ parsed.val = 0 THEN fallback ELSE parsed.val

(* ---------------------------------------------------------------------- *)
(* censusTracts.ts: deterministicRisk and BOSTON_TRACTS                    *)
(* ---------------------------------------------------------------------- *)

\* metrics are fixed-point numbers: Unit stands for 1.0 (every constant of
\* deterministicRisk is a whole number of 1/Unit)
Unit == 420 * 100

\* Math.round applied to the double nearest to num / den: the nearest integer;
\* when num / den is exactly halfway between two integers the double lies on
\* either side of it, tieUp tells on which
Round(num, den, tieUp) ==
    IF (2 * num) % den = 0 /\ ((2 * num) \div den) % 2 = 1
    THEN (IF tieUp THEN (2 * num + den) \div (2 * den) ELSE (2 * num - den) \div (2 * den))
    ELSE (2 * num + den) \div (2 * den)

\* Math.round(x * 100) / 100 for x * 100 = num / Unit
Round2(num, tieUp) == Round(num, Unit, tieUp) * (Unit \div 100)

\* const n = parseInt(geoid.slice(-5), 10) || 0
KeyNumber(geoid) == OrElse(parseInt(SliceLast(geoid, 5)), 0)

\* const mix = (n * 1619 + 37 * (n % 97) + 11) % 100
MixOf(n) == (n * 1619 + 37 * (n % 97) + 11) % 100

\* variant of RiskOfMix: the top band spans 0.28 instead of 0.18
RiskOfMix_WideTop(mix) ==
    IF mix < 20 THEN (15 * Unit) \div 100 + (mix * 15 * Unit) \div (20 * 100)
    ELSE IF mix < 55 THEN (30 * Unit) \div 100 + ((mix - 20) * 20 * Unit) \div (35 * 100)
    ELSE IF mix < 85 THEN (50 * Unit) \div 100 + ((mix - 55) * 20 * Unit) \div (30 * 100)
    ELSE (70 * Unit) \div 100 + ((mix - 85) * 28 * Unit) \div (15 * 100)

\* the four bands of deterministicRisk
RiskOfMix(mix) ==
    IF mix < 20 THEN (15 * Unit) \div 100 + (mix * 15 * Unit) \div (20 * 100)
    ELSE IF mix < 55 THEN (30 * Unit) \div 100 + ((mix - 20) * 20 * Unit) \div (35 * 100)
    ELSE IF mix < 85 THEN (50 * Unit) \div 100 + ((mix - 55) * 20 * Unit) \div (30 * 100)
    ELSE (70 * Unit) \div 100 + ((mix - 85) * 18 * Unit) \div (15 * 100)

deterministicRisk(geoid) == RiskOfMix(MixOf(KeyNumber(geoid)))

\* variant of SynthScores: supply_score grows with the risk
SynthScores_SupplyUp(risk, tieUp) ==
    [food_risk_score      |-> risk,
     equity_score         |-> Round2(95 * Unit - risk * 100, tieUp),
     transit_coverage     |-> Round2(55 * Unit + (Unit - risk) * 40, tieUp),
     food_insecurity_rate |-> Round2(risk * 38, tieUp),
     poverty_rate         |-> Round2(risk * 44, tieUp),
     snap_rate            |-> Round2(risk * 50, tieUp),
     vulnerability_index  |-> Round2(risk * 92, tieUp),
     need_score           |-> Round2(risk * 95, tieUp),
     supply_score         |-> Round2(90 * Unit + risk * 75, tieUp)]

\* the scores of a tract that is not in the curated lookup
SynthScores(risk, tieUp) ==
    [food_risk_score      |-> risk,
     equity_score         |-> Round2(95 * Unit - risk * 100, tieUp),
     transit_coverage     |-> Round2(55 * Unit + (Unit - risk) * 40, tieUp),
     food_insecurity_rate |-> Round2(risk * 38, tieUp),
     poverty_rate         |-> Round2(risk * 44, tieUp),
     snap_rate            |-> Round2(risk * 50, tieUp),
     vulnerability_index  |-> Round2(risk * 92, tieUp),
     need_score           |-> Round2(risk * 95, tieUp),
     supply_score         |-> Round2(90 * Unit - risk * 75, tieUp)]

\* the scores synthesized for each value of mix, for either side of a tie
SynthTable ==
    [mix \in 0..99 |-> [tieUp \in BOOLEAN |-> SynthScores(RiskOfMix(mix), tieUp)]]

\* const numericId = parseInt(tractce, 10) || index + 1
NumericId(tractce, index) == OrElse(parseInt(tractce), index + 1)

\* the feature built from raw feature number index (counted from 0); the
\* curated lookup TRACT_RISK_SCORES holds none of the keys used here
BuildFeature(feature, index, tieUp) ==
    LET numericId == NumericId(feature.TRACTCE, index) IN
    [id         |-> numericId,
     geometry   |-> feature.geometry,
     properties |-> [id |-> numericId, tract_id |-> feature.GEOID]
                        @@ SynthScores(deterministicRisk(feature.GEOID), tieUp)]

\* rawTracts.features.map((feature, index) => ...)
BuildTracts(raw, tieUp) == [k \in DOMAIN raw |-> BuildFeature(raw[k], k - 1, tieUp)]

\* boston_tracts.geojson: GEOID = state and county 25025 followed by TRACTCE
rawTracts ==
    [i \in TractIds |->
        [GEOID    |-> <<"2", "5", "0", "2", "5", "0", "0", "0", "0", "0", DigitChars[i + 1]>>,
         TRACTCE  |-> <<"0", "0", "0", "0", "0", DigitChars[i + 1]>>,
         geometry |-> i]]

\* the 'tracts' GeoJSON source: feature-level id, geometry and attribute record
BOSTON_TRACTS == BuildTracts(rawTracts, TRUE)

\* the attribute record of feature number i
TractProperties(i) == BOSTON_TRACTS[i].properties

\* the layer of the object DeckGL picked under the pointer; "none": no object
Picks == {"none", "resource", "mbta"}

AppModes == {"resident", "government"}

\* MapLibre feature-state of the 'tracts' source before any setFeatureState
NoFeatureState == [i \in TractIds |-> [hover |-> FALSE, selected |-> FALSE]]

\* a TractProperties | null value that is null
NullTract == [id |-> Null, tract_id |-> <<>>]

\* a TooltipState that is null
NoTooltip == [kind |-> "none"]

\* info.object when DeckGL picked nothing
NoObject == [picked |-> FALSE]

\* a FrontendFoodResource; hasContact: resource.hours || resource.phone is truthy
ResourceObject(i) == [id |-> i, hasContact |-> (i % 2 = 1)]

\* an MbtaStop
MbtaStop(i) ==
    [name |-> i, vehicle_type |-> IF i % 2 = 1 THEN "light_rail" ELSE "heavy_rail"]

\* a PickingInfo: the picked object and the layer it belongs to
NoPick == [layer |-> "none", object |-> NoObject]

\* the picking results with n objects on each pickable layer
PickInfos(n) ==
    {NoPick}
    \cup {[layer |-> "resource", object |-> ResourceObject(i)] : i \in 1..n}
    \cup {[layer |-> "mbta", object |-> MbtaStop(i)] : i \in 1..n}

\* haversine(userLat, userLng, rLat, rLng): a number fixed by the resource
\* (the user location is constant)
haversine(resource) == <<"km", resource.id>>

InitialSize == [w |-> 800, h |-> 600]

\* the event a step handles: its kind, the index of the feature under the
\* pointer (Null: none) and the layer of the object DeckGL picked
Event(kind, hit, pick) == [kind |-> kind, hit |-> hit, pick |-> pick, object |-> NoObject]

\* a hover event: the feature under the pointer and the PickingInfo
HoverEvent(hit, info) ==
    [kind |-> "hover", hit |-> hit, pick |-> info.layer, object |-> info.object]

VARIABLES
    store,              \* useMapStore: mode, selectedTract, hoveredTract
    viewMode,           \* the mode prop (and key) of the mounted MapView
    containerReadyRef,  \* MapView containerReadyRef.current
    containerReady,     \* MapView containerReady state
    containerSize,      \* MapView containerSize state
    deckMounted,        \* the DeckGL element exists
    deckConstructions,  \* DeckGL constructions within this mount
    sawNonZero,         \* an observation with width > 0 and height > 0 was reported in this mount
    mapState,           \* "none": no map; "map": map without 'tract-fill'; "layer": layer exists
    hoveredIdRef,       \* useMapInteraction hoveredIdRef.current
    selectedIdRef,      \* useMapInteraction selectedIdRef.current
    featureState,       \* the renderer's feature-state of source 'tracts'
    cursor,             \* MapView cursor state
    tooltip,            \* MapView tooltip state
    writes,             \* setFeatureState calls of the last handler call, in order
    frames,             \* feature-state before the last handler call and after each of its writes
    notified,           \* onHovered / onSelected calls of the last handler call, in order
    hoverTrail,         \* results of the last (up to 3) hover updates of this mount
    lastEvent,          \* the event handled by the last step
    prevTooltip,        \* the tooltip state before the last hover event
    apiData,            \* useTracts: the response of fetchTracts, NoResponse before it
    tractData,          \* useTracts: the collection handed to the map: the one built by
                        \* censusTracts.ts (placeholderData), then the overlaid one
    rawResource,        \* useResources: the backend record given to mapResource
    mappedResource      \* useResources: what mapResource made of it

vars == <<store, viewMode, containerReadyRef, containerReady, containerSize, deckMounted,
          deckConstructions, sawNonZero, mapState, hoveredIdRef, selectedIdRef, featureState,
          cursor, tooltip, writes, frames, notified, hoverTrail, lastEvent, prevTooltip,
          apiData, tractData, rawResource, mappedResource>>

resourceVars == <<rawResource, mappedResource>>

dataVars == <<apiData, tractData, resourceVars>>

storeVars == <<store, viewMode>>

guardVars == <<containerReadyRef, containerReady, containerSize, deckMounted,
               deckConstructions, sawNonZero>>

routerVars == <<hoveredIdRef, selectedIdRef, featureState, cursor>>

\* variant of queryRenderedFeatures: a position over no polygon yields the
\* first feature of the collection
queryRenderedFeatures_Nearest(hit) == <<tractData[IF hit = Null THEN 1 ELSE hit]>>

\* map.queryRenderedFeatures([x, y], {layers: ['tract-fill']}): the list of
\* features of the source's current data under the pointer; hit is the index
\* of the topmost one, or Null
queryRenderedFeatures(hit) == IF hit = Null THEN <<>> ELSE <<tractData[hit]>>

(* ---------------------------------------------------------------------- *)
(* useMapStore and App.handleTractSelected                                 *)
(* ---------------------------------------------------------------------- *)

setMode(s, mode) == [s EXCEPT !.mode = mode, !.selectedTract = NullTract]

setSelectedTract(s, tract) == [s EXCEPT !.selectedTract = tract]

setHoveredTract(s, tract) == [s EXCEPT !.hoveredTract = tract]

handleTractSelected(s, props) == setMode(setSelectedTract(s, props), "government")

\* the store after the callbacks of one handler call ran in order
RECURSIVE Deliver(_, _)
Deliver(s, calls) ==
    IF calls = <<>> THEN s
    ELSE LET c == Head(calls)
             s1 == IF c.cb = "onSelected" THEN handleTractSelected(s, c.arg)
                   ELSE setHoveredTract(s, c.arg)
         IN Deliver(s1, Tail(calls))

(* ---------------------------------------------------------------------- *)
(* Renderer feature-state                                                  *)
(* ---------------------------------------------------------------------- *)

FsWrite(id, key, val) == [id |-> id, key |-> key, val |-> val]

\* variant of setFeatureState: the state of the feature is replaced instead of merged
setFeatureState_Replace(fs, w) ==
    [fs EXCEPT ![w.id] = [hover    |-> (w.key = "hover" /\ w.val),
                          selected |-> (w.key = "selected" /\ w.val)]]

setFeatureState(fs, w) == [fs EXCEPT ![w.id][w.key] = w.val]

\* the feature-state before a handler call and after each of its writes
RECURSIVE FramesOf(_, _)
FramesOf(fs, ws) ==
    IF ws = <<>> THEN <<fs>>
    ELSE <<fs>> \o FramesOf(setFeatureState(fs, Head(ws)), Tail(ws))

Last(seq) == seq[Len(seq)]

(* ---------------------------------------------------------------------- *)
(* useMapInteraction                                                       *)
(* ---------------------------------------------------------------------- *)

\* variant of LayerReady: the getLayer('tract-fill') test is left out
LayerReady_MapOnly(ms) == ms # "none"

\* const map = mapRef.current?.getMap(); if (!map || !map.getLayer('tract-fill')) return
LayerReady(ms) == ms = "layer"

\* const map = mapRef.current?.getMap(); if (!map) return
MapExists(ms) == ms # "none"

\* variant of HoverMissWrites: the previous hover flag is not cleared
HoverMissWrites_NoClear(hov) == <<>>

\* onDeckHover, no feature under the pointer: the setFeatureState calls
HoverMissWrites(hov) ==
    IF hov # Null THEN <<FsWrite(hov, "hover", FALSE)>> ELSE <<>>

\* variant of HoverHitWrites: the flag of the polygon hovered before is left set
HoverHitWrites_KeepOld(hov, newId) == <<FsWrite(newId, "hover", TRUE)>>

\* variant of HoverHitWrites: the new flag is set before the previous one is cleared
HoverHitWrites_SetFirst(hov, newId) ==
    <<FsWrite(newId, "hover", TRUE)>>
        \o (IF hov # Null /\ hov # newId THEN <<FsWrite(hov, "hover", FALSE)>> ELSE <<>>)

\* onDeckHover, feature newId under the pointer: the setFeatureState calls
HoverHitWrites(hov, newId) ==
    (IF hov # Null /\ hov # newId THEN <<FsWrite(hov, "hover", FALSE)>> ELSE <<>>)
        \o <<FsWrite(newId, "hover", TRUE)>>

\* onDeckHover: the onHovered calls
HoverNotified(hov, features) ==
    IF features = <<>>
    THEN (IF hov # Null THEN <<[cb |-> "onHovered", arg |-> NullTract]>> ELSE <<>>)
    ELSE <<[cb |-> "onHovered", arg |-> features[1].properties]>>

\* variant of ClearHoverCursor: setCursor('default') is left out
ClearHoverCursor_Keep(cur) == cur

\* clearHover: the cursor it leaves
ClearHoverCursor(cur) == "default"

\* variant of ClickWrites: the previously selected flag is not cleared
ClickWrites_NoClear(sel, clickedId) == <<FsWrite(clickedId, "selected", TRUE)>>

\* onDeckClick, feature clickedId under the pointer: the setFeatureState calls
ClickWrites(sel, clickedId) ==
    (IF sel # Null THEN <<FsWrite(sel, "selected", FALSE)>> ELSE <<>>)
        \o <<FsWrite(clickedId, "selected", TRUE)>>

\* variant of ClickNotified: onSelected receives only the feature id
ClickNotified_IdOnly(feature) ==
    <<[cb |-> "onSelected", arg |-> [id |-> feature.id, tract_id |-> <<>>]]>>

\* onDeckClick: the onSelected calls
ClickNotified(feature) == <<[cb |-> "onSelected", arg |-> feature.properties]>>

(* ---------------------------------------------------------------------- *)
(* MapView                                                                 *)
(* ---------------------------------------------------------------------- *)

\* variant of PickSuppressesClick: the info.object test is left out
PickSuppressesClick_Never(pick) == FALSE

\* handleDeckClick: if (info.object) return
PickSuppressesClick(pick) == pick # "none"

\* handleDeckHover: the tooltip state made from the PickingInfo; x and y are
\* info.x and info.y
HoverTooltip(info, x, y) ==
    IF info.object = NoObject THEN NoTooltip
    ELSE IF info.layer = "resource"
    THEN [kind       |-> "resource",
          resource   |-> info.object,
          position   |-> [x |-> x, y |-> y],
          distanceKm |-> haversine(info.object)]
    ELSE IF info.layer = "mbta"
    THEN [kind        |-> "mbta",
          name        |-> info.object.name,
          vehicleType |-> info.object.vehicle_type,
          position    |-> [x |-> x, y |-> y]]
    ELSE NoTooltip

\* variant of SetTooltip: the new value is merged into the previous one
SetTooltip_Merge(prev, next) == next @@ prev

\* setTooltip(next): the state becomes next
SetTooltip(prev, next) == next

\* variant of HoverRoutesToTracts: the tract hit-test runs only when DeckGL picked nothing
HoverRoutesToTracts_BareOnly(info) == info.object = NoObject

\* handleDeckHover calls onDeckHover(info.x, info.y) before it looks at info.object
HoverRoutesToTracts(info) == TRUE

\* variant of NextReady: ready as soon as one dimension is non-zero
NextReady_EitherDim(ready, width, height) ==
    IF ~ready /\ (width > 0 \/ height > 0) THEN TRUE ELSE ready

\* variant of NextReady: ready follows the size of every observation
NextReady_Live(ready, width, height) == width > 0 /\ height > 0

\* ResizeObserver callback: the value of containerReadyRef / containerReady
NextReady(ready, width, height) ==
    IF ~ready /\ width > 0 /\ height > 0 THEN TRUE ELSE ready

\* the last HoverTrailLen hover results
PushTrail(trail, v) ==
    LET t == Append(trail, v) IN IF Len(t) > HoverTrailLen THEN Tail(t) ELSE t

(* ---------------------------------------------------------------------- *)
(* MapView render: cursor and tooltip placement                            *)
(* ---------------------------------------------------------------------- *)

\* variant of getCursor: isHovering is looked at before isDragging
getCursor_HoverFirst(isDragging, isHovering, cur) ==
    IF isHovering THEN "pointer"
    ELSE IF isDragging THEN "grabbing"
    ELSE cur

\* DeckGL getCursor prop
getCursor(isDragging, isHovering, cur) ==
    IF isDragging THEN "grabbing"
    ELSE IF isHovering THEN "pointer"
    ELSE cur

Min(a, b) == IF a <= b THEN a ELSE b

Max(a, b) == IF a >= b THEN a ELSE b

\* variant of Clamp: the lower limit is applied last
Clamp_LowerLast(raw, lo, hi) == Max(Min(raw, hi), lo)

\* Math.min(Math.max(raw, lo), hi)
Clamp(raw, lo, hi) == Min(Max(raw, lo), hi)

\* TW of the panel that renders tip
TooltipWidth(tip) == IF tip.kind = "resource" THEN 240 ELSE 160

\* TH of the panel that renders tip
TooltipHeight(tip) ==
    IF tip.kind = "resource" THEN (IF tip.resource.hasContact THEN 120 ELSE 96) ELSE 44

\* style.left of the panel
TooltipLeft(tip, size) ==
    Clamp(tip.position.x + 14, 4, size.w - TooltipWidth(tip) - 4)

\* style.top of the panel
TooltipTop(tip, size) ==
    Clamp(tip.position.y - TooltipHeight(tip) \div 2, 4, size.h - TooltipHeight(tip) - 4)

(* ---------------------------------------------------------------------- *)
(* useTracts: live properties overlaid on BOSTON_TRACTS                    *)
(* ---------------------------------------------------------------------- *)

\* the query has no data yet
NoResponse == [fetched |-> FALSE, features |-> <<>>]

\* the positions in features of the entries for tract_id key
LiveEntries(features, key) ==
    {k \in DOMAIN features : features[k].properties.tract_id = key}

\* new Map(features.map(f => [tract_id, f])).get(key): the last entry wins
LiveEntry(features, key) ==
    features[CHOOSE k \in LiveEntries(features, key) :
                 \A j \in LiveEntries(features, key) : j <= k]

\* variant of SetData: new data drops the feature states of the source
SetData_Reset(fs, data) == NoFeatureState

\* <Source id="tracts" data={...} generateId={false}>: a data prop change calls
\* source.setData(data); feature state is kept by the source per feature id
\* and shows on the features of the new data that carry that id
SetData(fs, data) == fs

\* variant of Overlay: a matched feature is replaced by the fetched one
Overlay_LiveFeature(base, features) ==
    [k \in DOMAIN base |->
        IF LiveEntries(features, base[k].properties.tract_id) = {} THEN base[k]
        ELSE LET live == LiveEntry(features, base[k].properties.tract_id) IN
             [id         |-> live.id,
              geometry   |-> live.geometry,
              properties |-> live.properties @@ base[k].properties]]

\* BOSTON_TRACTS.features.map(f => live ? {...f, properties: {...f.properties, ...live}} : f)
Overlay(base, features) ==
    [k \in DOMAIN base |->
        IF LiveEntries(features, base[k].properties.tract_id) = {} THEN base[k]
        ELSE LET live == LiveEntry(features, base[k].properties.tract_id) IN
             [id         |-> base[k].id,
              geometry   |-> base[k].geometry,
              properties |-> live.properties @@ base[k].properties]]

(* ---------------------------------------------------------------------- *)
(* Inputs                                                                  *)
(* ---------------------------------------------------------------------- *)

\* state 25, county 025 and the first three digits of a tract code
GeoidPrefix == <<"2", "5", "0", "2", "5", "0", "0", "0">>

\* keys: the empty key, short keys, and GEOID-shaped keys, digits or not
RiskKeys ==
    StringsUpTo(Alphabet, MaxKeyLen)
    \cup {GeoidPrefix \o t : t \in StringsOfLen(Alphabet, MaxKeyLen)}

\* the properties of a raw feature whose GEOID is key
KeyedTract(key) == [GEOID |-> key, TRACTCE |-> SliceLast(key, 6)]

\* TRACTCE values: digits 0 and 1 and a letter
TractCodes == StringsUpTo({"0", "1", "x"}, MaxCodeLen)

\* the properties of a raw feature whose TRACTCE is code
CodedTract(code) == [GEOID |-> <<"2", "5", "0", "2", "5">> \o code, TRACTCE |-> code]

\* fetched values of a metric: one inside [0,1] and one above 1
LiveValues == {Unit \div 2, (3 * Unit) \div 2}

\* what a response holds for one bundled tract: nothing, or a feature with a
\* metric value and the backend's feature id, equal to the bundled one or not
LiveChoices ==
    {[present |-> FALSE, value |-> 0, sameId |-> TRUE]}
    \cup [present : {TRUE}, value : LiveValues, sameId : BOOLEAN]

\* a feature of the backend's collection; its geometry is the backend's own
LiveFeature(key, value, liveId) ==
    [id         |-> liveId,
     geometry   |-> 0,
     properties |-> [id |-> liveId, tract_id |-> key, food_risk_score |-> value]]

\* a tract_id that is not in BOSTON_TRACTS
UnknownKey == <<"2", "5", "0", "2", "5", "9", "9", "9", "9", "9", "9">>

RECURSIVE ResponseFrom(_, _)
ResponseFrom(choice, i) ==
    IF i > NumTracts THEN <<>>
    ELSE (IF choice[i].present
          THEN <<LiveFeature(BOSTON_TRACTS[i].properties.tract_id, choice[i].value,
                             IF choice[i].sameId THEN BOSTON_TRACTS[i].id
                             ELSE BOSTON_TRACTS[i].id + NumTracts)>>
          ELSE <<>>)
         \o ResponseFrom(choice, i + 1)

\* responses that hold the same choice for every bundled tract
RefreshResponses == {ResponseFrom([i \in TractIds |-> c], 1) : c \in LiveChoices}

\* the feature lists fetchTracts can resolve to
ApiResponses ==
    {ResponseFrom(choice, 1) \o extra :
        choice \in [TractIds -> LiveChoices],
        extra \in {<<>>, <<LiveFeature(UnknownKey, Unit \div 2, 2 * NumTracts + 1)>>}}

\* container widths and heights of the tooltip placement
TipWidths == {0} \cup {SizeStep * k : k \in 1..MaxSizeSteps}

\* the container has min-height 400px; 0 is reported while it is not laid out
TipHeights == {0, 400}

\* the pointer at the corners, edge midpoints and centre of the canvas
CornerPositions(size) ==
    {0, size.w \div 2, size.w} \X {0, size.h \div 2, size.h}

\* info.x, info.y of a hover event on a canvas of the given size
PointerPositions(anywhere, size) == IF anywhere THEN CornerPositions(size) ELSE {TopLeft}

(* ---------------------------------------------------------------------- *)
(* layers: paint expressions of the tract layers                           *)
(* ---------------------------------------------------------------------- *)

\* variant of CaseExpr: the hover branch is tried first
CaseExpr_HoverFirst(fs, whenSelected, whenHover, otherwise) ==
    IF fs.hover THEN whenHover
    ELSE IF fs.selected THEN whenSelected
    ELSE otherwise

\* ['case', ['boolean', ['feature-state', 'selected'], false], whenSelected,
\*          ['boolean', ['feature-state', 'hover'], false], whenHover,
\*          otherwise]: the value of the first branch whose condition holds
CaseExpr(fs, whenSelected, whenHover, otherwise) ==
    IF fs.selected THEN whenSelected
    ELSE IF fs.hover THEN whenHover
    ELSE otherwise

\* fill-opacity, in hundredths
fillOpacityExpr(fs) == CaseExpr(fs, 85, 75, 60)

\* line-color
borderColorExpr(fs) ==
    CaseExpr(fs, "#f5a623", "rgba(255,255,255,0.9)", "rgba(255,255,255,0.15)")

\* line-width, in tenths of a pixel
borderWidthExpr(fs) == CaseExpr(fs, 30, 20, 8)

\* line-opacity, in hundredths
borderOpacityExpr(fs) == CaseExpr(fs, 100, 100, 30)

\* what the fill and border layers paint for a feature with feature state fs
Paint(fs) ==
    [fillOpacity   |-> fillOpacityExpr(fs),
     borderColor   |-> borderColorExpr(fs),
     borderWidth   |-> borderWidthExpr(fs),
     borderOpacity |-> borderOpacityExpr(fs)]

(* ---------------------------------------------------------------------- *)
(* storeHierarchy: classifyStoreType, getChainPriceScore, STORE_HIERARCHY   *)
(* ---------------------------------------------------------------------- *)

\* strings are sequences of one-character strings
\* the lower-case letter of each upper-case letter
LowerOf ==
    LET UpperCase == <<"A","B","C","D","E","F","G","H","I","J","K","L","M","N","O","P","Q","R","S","T","U","V","W","X","Y","Z">>
        LowerCase == <<"a","b","c","d","e","f","g","h","i","j","k","l","m","n","o","p","q","r","s","t","u","v","w","x","y","z">>
    IN
    [c \in {UpperCase[k] : k \in DOMAIN UpperCase} |->
        LowerCase[CHOOSE k \in DOMAIN UpperCase : UpperCase[k] = c]]

\* String.prototype.toLowerCase
toLowerCase(str) ==
    [i \in DOMAIN str |-> IF str[i] \in DOMAIN LowerOf THEN LowerOf[str[i]] ELSE str[i]]

\* String.prototype.trim: white space taken off both ends
trim(str) ==
    LET inner == {i \in DOMAIN str : str[i] # " "} IN
    IF inner = {} THEN <<>>
    ELSE SubSeq(str, CHOOSE i \in inner : \A j \in inner : i <= j,
                     CHOOSE i \in inner : \A j \in inner : j <= i)

\* String.prototype.includes
includes(str, sub) ==
    \E i \in 0..(Len(str) - Len(sub)) : SubSeq(str, i + 1, i + Len(sub)) = sub

\* str.match(/a|b|.../) is non-null: the pattern is an alternation of words,
\* given as the set of the strings it spells out
match(str, words) == \E w \in words : includes(str, w)

\* /7-?eleven|circle k|cumberland|speedway|wawa/
ConvenienceChains ==
    {<<"7", "-", "e", "l", "e", "v", "e", "n">>,
     <<"7", "e", "l", "e", "v", "e", "n">>,
     <<"c", "i", "r", "c", "l", "e", " ", "k">>,
     <<"c", "u", "m", "b", "e", "r", "l", "a", "n", "d">>,
     <<"s", "p", "e", "e", "d", "w", "a", "y">>,
     <<"w", "a", "w", "a">>}

\* /costco|bj['']?s|sam['']?s club/
WholesaleChains ==
    {<<"c", "o", "s", "t", "c", "o">>,
     <<"b", "j", "'", "s">>,
     <<"b", "j", "s">>,
     <<"s", "a", "m", "'", "s", " ", "c", "l", "u", "b">>,
     <<"s", "a", "m", "s", " ", "c", "l", "u", "b">>}

\* /whole foods|trader joe|wegmans|star market|stop & shop|shaw|hannaford|aldi|market basket/
SupermarketChains ==
    {<<"w", "h", "o", "l", "e", " ", "f", "o", "o", "d", "s">>,
     <<"t", "r", "a", "d", "e", "r", " ", "j", "o", "e">>,
     <<"w", "e", "g", "m", "a", "n", "s">>,
     <<"s", "t", "a", "r", " ", "m", "a", "r", "k", "e", "t">>,
     <<"s", "t", "o", "p", " ", "&", " ", "s", "h", "o", "p">>,
     <<"s", "h", "a", "w">>,
     <<"h", "a", "n", "n", "a", "f", "o", "r", "d">>,
     <<"a", "l", "d", "i">>,
     <<"m", "a", "r", "k", "e", "t", " ", "b", "a", "s", "k", "e", "t">>}

\* type StoreCategory
StoreCategories ==
    {"convenience", "supermarket", "grocery", "wholesale", "farmersmarket", "pantry", "mobile"}

\* variant of classifyStoreType: the chain names are tried before the
\* store_type phrases
classifyStoreType_NameFirst(backendType, storeName) ==
    LET t == trim(toLowerCase(backendType))
        n == trim(toLowerCase(storeName))
    IN
    IF t = <<"p", "a", "n", "t", "r", "y">> THEN "pantry"
    ELSE IF t = <<"m", "o", "b", "i", "l", "e">> THEN "mobile"
    ELSE IF t = <<"m", "a", "r", "k", "e", "t">> THEN "farmersmarket"
    ELSE IF match(n, ConvenienceChains) THEN "convenience"
    ELSE IF match(n, WholesaleChains) THEN "wholesale"
    ELSE IF match(n, SupermarketChains) THEN "supermarket"
    ELSE IF includes(t, <<"c", "o", "n", "v", "e", "n", "i", "e", "n", "c", "e">>) THEN "convenience"
    ELSE IF includes(t, <<"s", "u", "p", "e", "r", " ", "s", "t", "o", "r", "e">>) \/ t = <<"s", "u", "p", "e", "r", "m", "a", "r", "k", "e", "t">> THEN "supermarket"
    ELSE IF includes(t, <<"w", "h", "o", "l", "e", "s", "a", "l", "e">>) \/ includes(t, <<"c", "l", "u", "b">>) THEN "wholesale"
    ELSE IF includes(t, <<"f", "a", "r", "m", "e", "r", "s">>) \/ includes(t, <<"f", "a", "r", "m", " ", "m", "a", "r", "k", "e", "t">>) THEN "farmersmarket"
    ELSE IF includes(t, <<"g", "r", "o", "c", "e", "r", "y">>) THEN "grocery"
    ELSE "grocery"

\* classifyStoreType(backendType, storeName)
classifyStoreType(backendType, storeName) ==
    LET t == trim(toLowerCase(backendType))
        n == trim(toLowerCase(storeName))
    IN
    IF t = <<"p", "a", "n", "t", "r", "y">> THEN "pantry"
    ELSE IF t = <<"m", "o", "b", "i", "l", "e">> THEN "mobile"
    ELSE IF t = <<"m", "a", "r", "k", "e", "t">> THEN "farmersmarket"
    ELSE IF includes(t, <<"c", "o", "n", "v", "e", "n", "i", "e", "n", "c", "e">>) THEN "convenience"
    ELSE IF includes(t, <<"s", "u", "p", "e", "r", " ", "s", "t", "o", "r", "e">>) \/ t = <<"s", "u", "p", "e", "r", "m", "a", "r", "k", "e", "t">> THEN "supermarket"
    ELSE IF includes(t, <<"w", "h", "o", "l", "e", "s", "a", "l", "e">>) \/ includes(t, <<"c", "l", "u", "b">>) THEN "wholesale"
    ELSE IF includes(t, <<"f", "a", "r", "m", "e", "r", "s">>) \/ includes(t, <<"f", "a", "r", "m", " ", "m", "a", "r", "k", "e", "t">>) THEN "farmersmarket"
    ELSE IF includes(t, <<"g", "r", "o", "c", "e", "r", "y">>) THEN "grocery"
    ELSE IF match(n, ConvenienceChains) THEN "convenience"
    ELSE IF match(n, WholesaleChains) THEN "wholesale"
    ELSE IF match(n, SupermarketChains) THEN "supermarket"
    ELSE "grocery"

\* an absent optional value (undefined or null)
Nothing == [some |-> FALSE]

\* a present optional value
Some(v) == [some |-> TRUE, value |-> v]

\* price scores are in hundredths: 95 stands for 0.95
\* getChainPriceScore(storeName): a price score, or null
getChainPriceScore(storeName) ==
    LET n == toLowerCase(storeName) IN
    IF match(n, {<<"w", "h", "o", "l", "e", " ", "f", "o", "o", "d", "s">>}) THEN Some(80)
    ELSE IF match(n, {<<"t", "r", "a", "d", "e", "r", " ", "j", "o", "e">>}) THEN Some(45)
    ELSE IF match(n, {<<"a", "l", "d", "i">>}) THEN Some(30)
    ELSE IF match(n, {<<"m", "a", "r", "k", "e", "t", " ", "b", "a", "s", "k", "e", "t">>}) THEN Some(35)
    ELSE IF match(n, {<<"s", "t", "o", "p", " ", "&", " ", "s", "h", "o", "p">>,
                      <<"s", "h", "a", "w">>, <<"h", "a", "n", "n", "a", "f", "o", "r", "d">>}) THEN Some(60)
    ELSE IF match(n, {<<"s", "t", "a", "r", " ", "m", "a", "r", "k", "e", "t">>}) THEN Some(65)
    ELSE IF match(n, {<<"c", "o", "s", "t", "c", "o">>, <<"b", "j", "'", "s">>, <<"b", "j", "s">>,
                      <<"s", "a", "m", "'", "s">>, <<"s", "a", "m", "s">>}) THEN Some(35)
    ELSE IF match(n, {<<"7", "-", "e", "l", "e", "v", "e", "n">>, <<"7", "e", "l", "e", "v", "e", "n">>,
                      <<"c", "i", "r", "c", "l", "e", " ", "k">>, <<"c", "u", "m", "b", "e", "r", "l", "a", "n", "d">>}) THEN Some(95)
    ELSE Nothing

\* STORE_HIERARCHY: the tier of each category
STORE_HIERARCHY ==
    [category \in StoreCategories |->
        CASE category = "convenience" ->
                [priceScore |-> 95, priceTier |-> "Very High", priceLabel |-> "$$$$",
                 priceDots |-> 5, hexColor |-> "#ef4444"]
          [] category = "supermarket" ->
                [priceScore |-> 65, priceTier |-> "Moderate-High", priceLabel |-> "$$$",
                 priceDots |-> 3, hexColor |-> "#f59e0b"]
          [] category = "grocery" ->
                [priceScore |-> 50, priceTier |-> "Moderate", priceLabel |-> "$$",
                 priceDots |-> 2, hexColor |-> "#84cc16"]
          [] category = "wholesale" ->
                [priceScore |-> 35, priceTier |-> "Low (bulk)", priceLabel |-> "$",
                 priceDots |-> 2, hexColor |-> "#3b82f6"]
          [] category = "farmersmarket" ->
                [priceScore |-> 25, priceTier |-> "Low", priceLabel |-> "$",
                 priceDots |-> 1, hexColor |-> "#8b5cf6"]
          [] category = "pantry" ->
                [priceScore |-> 0, priceTier |-> "Free", priceLabel |-> "",
                 priceDots |-> 0, hexColor |-> "#10b981"]
          [] category = "mobile" ->
                [priceScore |-> 0, priceTier |-> "Free", priceLabel |-> "",
                 priceDots |-> 0, hexColor |-> "#06b6d4"]]

(* ---------------------------------------------------------------------- *)
(* hooks: mapResource                                                      *)
(* ---------------------------------------------------------------------- *)

\* the value of STORE_HIERARCHY[category] for a key the table does not have
Undefined == [defined |-> FALSE]

\* STORE_HIERARCHY[category]
TierOf(category) ==
    IF category \in DOMAIN STORE_HIERARCHY THEN STORE_HIERARCHY[category] ELSE Undefined

\* opt ?? fallback
Coalesce(opt, fallback) == IF opt.some THEN opt.value ELSE fallback

\* TYPE_MAP[r.type] ?? 'pantry'
TYPE_MAP(type) ==
    IF type = <<"p", "a", "n", "t", "r", "y">> THEN "pantry"
    ELSE IF type = <<"g", "r", "o", "c", "e", "r", "y">> THEN "grocery"
    ELSE IF type = <<"m", "a", "r", "k", "e", "t">> THEN "farmers_market"
    ELSE IF type = <<"m", "o", "b", "i", "l", "e">> THEN "mobile"
    ELSE "pantry"

\* (r.category as StoreCategory | undefined) ?? classifyStoreType(r.type, r.name)
\* a category value is a key of STORE_HIERARCHY or another string
ResolveCategory(r) ==
    IF r.category.some THEN r.category.value ELSE classifyStoreType(r.type, r.name)

\* variant of ResolvePriceScore: the category default comes before the chain score
ResolvePriceScore_TierFirst(backendScore, chainScore, tier) ==
    IF backendScore.some THEN backendScore.value
    ELSE IF tier # Undefined THEN tier.priceScore
    ELSE chainScore.value

\* r.price_score != null ? r.price_score : chainScore ?? tier.priceScore
ResolvePriceScore(backendScore, chainScore, tier) ==
    IF backendScore.some THEN backendScore.value
    ELSE IF chainScore.some THEN chainScore.value
    ELSE tier.priceScore

\* mapResource evaluates a property of tier
ReadsTier(r, chainScore) ==
    \/ ~r.price_score.some /\ ~chainScore.some
    \/ ~r.price_tier.some
    \/ ~r.price_label.some
    \/ ~r.price_dots.some
    \/ ~r.hex_color.some

\* the outcome of a call that ended with a TypeError
Thrown == [threw |-> TRUE]

\* mapResource(r); id, address, coordinates, hours and phone are copied from r
\* and stand here as the one field id
mapResource(r) ==
    LET category == ResolveCategory(r)
        tier == TierOf(category)
        chainScore == getChainPriceScore(r.name)
    IN
    IF tier = Undefined /\ ReadsTier(r, chainScore) THEN Thrown
    ELSE [threw          |-> FALSE,
          id             |-> r.resource_id,
          name           |-> r.name,
          type           |-> TYPE_MAP(r.type),
          transitMinutes |-> Coalesce(r.transit_minutes_est, 30),
          tags           |-> (IF r.snap THEN <<"SNAP", "EBT">> ELSE <<>>)
                             \o (IF r.free THEN <<"Free">> ELSE <<>>),
          category       |-> category,
          priceScore     |-> ResolvePriceScore(r.price_score, chainScore, tier),
          priceTier      |-> IF r.price_tier.some THEN r.price_tier.value ELSE tier.priceTier,
          priceLabel     |-> IF r.price_label.some THEN r.price_label.value ELSE tier.priceLabel,
          priceDots      |-> IF r.price_dots.some THEN r.price_dots.value ELSE tier.priceDots,
          hexColor       |-> IF r.hex_color.some THEN r.hex_color.value ELSE tier.hexColor]

(* ---------------------------------------------------------------------- *)
(* Inputs of mapResource                                                   *)
(* ---------------------------------------------------------------------- *)

RECURSIVE ConcatsOfLen(_, _)
\* the strings made of n of the words
ConcatsOfLen(ws, n) ==
    IF n = 0 THEN {<<>>}
    ELSE {w \o rest : w \in ws, rest \in ConcatsOfLen(ws, n - 1)}

\* words of backend type and PolicyMap store_type strings, in mixed case
TypeWords ==
    {<<"p", "a", "n", "t", "r", "y">>,
     <<"M", "o", "b", "i", "l", "e">>,
     <<"m", "a", "r", "k", "e", "t">>,
     <<" ">>,
     <<"C", "o", "n", "v", "e", "n", "i", "e", "n", "c", "e", " ", "S", "t", "o", "r", "e">>,
     <<"S", "u", "p", "e", "r", " ", "S", "t", "o", "r", "e">>,
     <<"S", "u", "p", "e", "r", "m", "a", "r", "k", "e", "t">>,
     <<"W", "h", "o", "l", "e", "s", "a", "l", "e", " ", "C", "l", "u", "b">>,
     <<"F", "a", "r", "m", "e", "r", "s">>,
     <<"G", "r", "o", "c", "e", "r", "y">>,
     <<"u", "n", "k", "n", "o", "w", "n", "-", "g", "a", "r", "b", "a", "g", "e">>,
     <<"s">>}

\* raw types: up to MaxTypeWords words in a row
BackendTypes == UNION {ConcatsOfLen(TypeWords, n) : n \in 0..MaxTypeWords}

\* store names: chains of both tables, with other words around them or in
\* another case, and names of no chain
StoreNames ==
    {<<>>,
     <<"7", "-", "E", "l", "e", "v", "e", "n">>,
     <<"7", "-", "E", "l", "e", "v", "e", "n", " ", "B", "o", "s", "t", "o", "n">>,
     <<"7", "E", "L", "E", "V", "E", "N">>,
     <<"C", "i", "r", "c", "l", "e", " ", "K">>,
     <<"C", "u", "m", "b", "e", "r", "l", "a", "n", "d", " ", "F", "a", "r", "m", "s">>,
     <<"S", "p", "e", "e", "d", "w", "a", "y">>,
     <<"W", "a", "w", "a">>,
     <<"C", "o", "s", "t", "c", "o">>,
     <<"B", "J", "'", "s">>,
     <<"B", "J", "s", " ", "W", "h", "o", "l", "e", "s", "a", "l", "e", " ", "C", "l", "u", "b">>,
     <<"S", "a", "m", "'", "s", " ", "C", "l", "u", "b">>,
     <<"S", "a", "m", "'", "s">>,
     <<"W", "h", "o", "l", "e", " ", "F", "o", "o", "d", "s", " ", "M", "a", "r", "k", "e", "t">>,
     <<"T", "r", "a", "d", "e", "r", " ", "J", "o", "e", "'", "s">>,
     <<"W", "e", "g", "m", "a", "n", "s">>,
     <<"S", "t", "a", "r", " ", "M", "a", "r", "k", "e", "t">>,
     <<"S", "t", "o", "p", " ", "&", " ", "S", "h", "o", "p">>,
     <<"S", "h", "a", "w", "'", "s", " ", "S", "t", "a", "r", " ", "M", "a", "r", "k", "e", "t">>,
     <<"H", "a", "n", "n", "a", "f", "o", "r", "d">>,
     <<" ", " ", "A", "L", "D", "I", " ", " ">>,
     <<"M", "a", "r", "k", "e", "t", " ", "B", "a", "s", "k", "e", "t">>,
     <<"C", "o", "r", "n", "e", "r", " ", "S", "h", "o", "p">>,
     <<"S", "e", "v", "e", "n", " ", "E", "l", "e", "v", "e", "n">>}

\* a backend record that is not enriched
PlainResource(type, name) ==
    [resource_id |-> 1, type |-> type, name |-> name, snap |-> FALSE, free |-> FALSE,
     transit_minutes_est |-> Nothing, category |-> Nothing, price_score |-> Nothing,
     price_tier |-> Nothing, price_label |-> Nothing, price_dots |-> Nothing,
     hex_color |-> Nothing]

\* no record was mapped yet
NoResource == [resource_id |-> Null]

NotMapped == [mapped |-> FALSE]

\* category values of the backend: absent, the seven categories, and one that
\* STORE_HIERARCHY does not have
BackendCategories == {Nothing} \cup {Some(c) : c \in StoreCategories \cup {"bodega"}}

\* backend records with and without the enrichment fields (the four display
\* fields come together), service flags and a transit estimate
EnrichedResources ==
    {[resource_id |-> 1, type |-> <<"g", "r", "o", "c", "e", "r", "y">>, name |-> name,
      snap |-> snap, free |-> free, transit_minutes_est |-> transit,
      category |-> category, price_score |-> score,
      price_tier |-> IF display THEN Some("Backend") ELSE Nothing,
      price_label |-> IF display THEN Some("$$$$$") ELSE Nothing,
      price_dots |-> IF display THEN Some(4) ELSE Nothing,
      hex_color |-> IF display THEN Some("#000000") ELSE Nothing] :
        name \in {<<>>,
                 <<"C", "o", "r", "n", "e", "r", " ", "S", "h", "o", "p">>,
                 <<"7", "-", "E", "l", "e", "v", "e", "n">>,
                 <<"A", "l", "d", "i">>},
        snap \in BOOLEAN, free \in BOOLEAN,
        transit \in {Nothing, Some(12)}, category \in BackendCategories,
        score \in {Nothing, Some(10)}, display \in BOOLEAN}

(* ---------------------------------------------------------------------- *)
(* Initial state: App and MapView just mounted                             *)
(* ---------------------------------------------------------------------- *)

ViewInit ==
    /\ containerReadyRef = FALSE
    /\ containerReady = FALSE
    /\ containerSize = InitialSize
    /\ deckMounted = FALSE
    /\ deckConstructions = 0
    /\ sawNonZero = FALSE
    /\ mapState = "none"
    /\ hoveredIdRef = Null
    /\ selectedIdRef = Null
    /\ featureState = NoFeatureState
    /\ cursor = "default"
    /\ tooltip = NoTooltip
    /\ writes = <<>>
    /\ frames = <<NoFeatureState>>
    /\ notified = <<>>
    /\ hoverTrail = <<>>
    /\ prevTooltip = NoTooltip

AppInit ==
    /\ store = [mode |-> "resident", selectedTract |-> NullTract, hoveredTract |-> NullTract]
    /\ viewMode = "resident"
    /\ ViewInit
    /\ lastEvent = Event("init", Null, "none")
    /\ rawResource = NoResource
    /\ mappedResource = NotMapped

\* the app mounted with the bundled tracts; the tracts query has no data yet
\* and serves placeholderData
Init ==
    /\ AppInit
    /\ apiData = NoResponse
    /\ tractData = BOSTON_TRACTS

\* before the module censusTracts.ts is evaluated: there is no collection yet
InitLoad ==
    /\ AppInit
    /\ apiData = NoResponse
    /\ tractData = <<>>

\* a step that calls no router handler leaves the call logs of the last one empty
NoHandlerLogs(fs) ==
    /\ writes' = <<>>
    /\ frames' = <<fs>>
    /\ notified' = <<>>

(* ---------------------------------------------------------------------- *)
(* Actions                                                                 *)
(* ---------------------------------------------------------------------- *)

\* ResizeObserver callback and the render that follows it, reporting a width
\* of widths and a height of heights
ResizeT(widths, heights) ==
    \E width \in widths, height \in heights :
        LET ready == NextReady(containerReadyRef, width, height) IN
        /\ containerSize' = [w |-> width, h |-> height]
        /\ containerReadyRef' = ready
        /\ containerReady' = ready
        /\ sawNonZero' = (sawNonZero \/ (width > 0 /\ height > 0))
        \* {containerReady && <DeckGL ...>}
        /\ deckMounted' = ready
        /\ deckConstructions' = IF ready /\ ~deckMounted THEN deckConstructions + 1
                                ELSE deckConstructions
        /\ mapState' = IF ready THEN mapState ELSE "none"
        /\ featureState' = IF ready THEN featureState ELSE NoFeatureState
        /\ lastEvent' = Event("resize", Null, "none")
        /\ NoHandlerLogs(IF ready THEN featureState ELSE NoFeatureState)
        /\ UNCHANGED <<store, viewMode, hoveredIdRef, selectedIdRef, cursor, tooltip, hoverTrail,
                       prevTooltip, dataVars>>

Resize == ResizeT(Dims, Dims)

\* MapGL (a child of DeckGL) created its map instance
MapCreated ==
    /\ deckMounted
    /\ mapState = "none"
    /\ mapState' = "map"
    /\ lastEvent' = Event("mapCreated", Null, "none")
    /\ NoHandlerLogs(featureState)
    /\ UNCHANGED <<storeVars, guardVars, routerVars, tooltip, hoverTrail, prevTooltip, dataVars>>

\* the style loaded and <Layer id='tract-fill'> was added
LayerAdded ==
    /\ mapState = "map"
    /\ mapState' = "layer"
    /\ lastEvent' = Event("layerAdded", Null, "none")
    /\ NoHandlerLogs(featureState)
    /\ UNCHANGED <<storeVars, guardVars, routerVars, tooltip, hoverTrail, prevTooltip, dataVars>>

\* DeckGL onHover -> handleDeckHover -> onDeckHover, with the pointer over one
\* of the features hits (at the top-left corner, or, with anywhere, at a
\* corner, edge midpoint or the centre of the canvas) and DeckGL picking one of
\* infos; track: record the hover result in hoverTrail; trackTip: record the
\* tooltip state the event found in prevTooltip
DeckHoverT(track, trackTip, anywhere, hits, infos) ==
    \E hit \in hits, info \in infos, pos \in PointerPositions(anywhere, containerSize) :
        LET features == queryRenderedFeatures(hit)
            routed == HoverRoutesToTracts(info) /\ LayerReady(mapState)
            ws == IF ~routed THEN <<>>
                  ELSE IF features = <<>> THEN HoverMissWrites(hoveredIdRef)
                  ELSE HoverHitWrites(hoveredIdRef, features[1].id)
            calls == IF ~routed THEN <<>>
                     ELSE HoverNotified(hoveredIdRef, features)
            fr == FramesOf(featureState, ws)
        IN
        /\ deckMounted
        /\ writes' = ws
        /\ frames' = fr
        /\ featureState' = Last(fr)
        /\ hoveredIdRef' = IF ~routed THEN hoveredIdRef
                           ELSE IF features = <<>> THEN Null
                           ELSE features[1].id
        /\ cursor' = IF ~routed THEN cursor
                     ELSE IF features = <<>> THEN "default"
                     ELSE "crosshair"
        /\ notified' = calls
        /\ store' = Deliver(store, calls)
        /\ tooltip' = SetTooltip(tooltip, HoverTooltip(info, pos[1], pos[2]))
        /\ prevTooltip' = IF trackTip THEN tooltip ELSE prevTooltip
        /\ hoverTrail' = IF track /\ routed THEN PushTrail(hoverTrail, hit)
                         ELSE hoverTrail
        /\ lastEvent' = HoverEvent(hit, info)
        /\ UNCHANGED <<viewMode, guardVars, mapState, selectedIdRef, dataVars>>

DeckHover == DeckHoverT(FALSE, FALSE, FALSE, TractIds \cup {Null}, PickInfos(1))

\* container onMouseLeave -> clearHover; track: record the clearing in hoverTrail
ClearHoverT(track) ==
    LET ws == IF MapExists(mapState) THEN HoverMissWrites(hoveredIdRef) ELSE <<>>
        calls == IF MapExists(mapState) /\ hoveredIdRef # Null
                 THEN <<[cb |-> "onHovered", arg |-> NullTract]>> ELSE <<>>
        fr == FramesOf(featureState, ws)
    IN
    /\ writes' = ws
    /\ frames' = fr
    /\ featureState' = Last(fr)
    /\ hoveredIdRef' = IF MapExists(mapState) THEN Null ELSE hoveredIdRef
    /\ cursor' = IF MapExists(mapState) THEN ClearHoverCursor(cursor) ELSE cursor
    /\ notified' = calls
    /\ store' = Deliver(store, calls)
    /\ hoverTrail' = IF track /\ MapExists(mapState) THEN PushTrail(hoverTrail, Null)
                     ELSE hoverTrail
    /\ lastEvent' = Event("leave", Null, "none")
    /\ UNCHANGED <<viewMode, guardVars, mapState, selectedIdRef, tooltip, prevTooltip, dataVars>>

ClearHover == ClearHoverT(FALSE)

\* DeckGL onClick -> handleDeckClick -> onDeckClick -> App.handleTractSelected
DeckClick ==
    \E hit \in TractIds \cup {Null}, pick \in Picks :
        LET features == queryRenderedFeatures(hit)
            acts == ~PickSuppressesClick(pick) /\ LayerReady(mapState) /\ features # <<>>
            ws == IF acts THEN ClickWrites(selectedIdRef, features[1].id) ELSE <<>>
            calls == IF acts THEN ClickNotified(features[1]) ELSE <<>>
            fr == FramesOf(featureState, ws)
        IN
        /\ deckMounted
        /\ writes' = ws
        /\ frames' = fr
        /\ featureState' = Last(fr)
        /\ selectedIdRef' = IF acts THEN features[1].id ELSE selectedIdRef
        /\ notified' = calls
        /\ store' = Deliver(store, calls)
        /\ lastEvent' = Event("click", hit, pick)
        /\ UNCHANGED <<viewMode, guardVars, mapState, hoveredIdRef, cursor, tooltip, hoverTrail,
                       prevTooltip, dataVars>>

\* Header mode toggle buttons
HeaderSetMode ==
    \E m \in AppModes :
        /\ store' = setMode(store, m)
        /\ lastEvent' = Event("setMode", Null, "none")
        /\ NoHandlerLogs(featureState)
        /\ UNCHANGED <<viewMode, guardVars, mapState, routerVars, tooltip, hoverTrail,
                       prevTooltip, dataVars>>

\* App render after a mode change: <motion.div key={mode}> replaces the MapView
\* by a freshly mounted one (new refs, new map, new DeckGL)
Remount ==
    /\ viewMode # store.mode
    /\ viewMode' = store.mode
    /\ containerReadyRef' = FALSE
    /\ containerReady' = FALSE
    /\ containerSize' = InitialSize
    /\ deckMounted' = FALSE
    /\ deckConstructions' = 0
    /\ sawNonZero' = FALSE
    /\ mapState' = "none"
    /\ hoveredIdRef' = Null
    /\ selectedIdRef' = Null
    /\ featureState' = NoFeatureState
    /\ cursor' = "default"
    /\ tooltip' = NoTooltip
    /\ hoverTrail' = <<>>
    /\ lastEvent' = Event("remount", Null, "none")
    /\ prevTooltip' = NoTooltip
    /\ NoHandlerLogs(NoFeatureState)
    /\ UNCHANGED <<store, dataVars>>

Next ==
    \/ Resize
    \/ MapCreated
    \/ LayerAdded
    \/ DeckHover
    \/ ClearHover
    \/ DeckClick
    \/ HeaderSetMode
    \/ Remount

Spec == Init /\ [][Next]_vars

\* hover sequences with their history recorded in hoverTrail
TrackedDeckHover == DeckHoverT(TRUE, FALSE, FALSE, TractIds \cup {Null}, PickInfos(1))

TrackedClearHover == ClearHoverT(TRUE)

NextHoverSeq ==
    \/ Resize
    \/ MapCreated
    \/ LayerAdded
    \/ TrackedDeckHover
    \/ TrackedClearHover

SpecHoverSeq == Init /\ [][NextHoverSeq]_vars

\* evaluation of the module censusTracts.ts on a raw collection of up to
\* maxLen features with pairwise different properties out of props; the built
\* collection is what useTracts hands out until a response arrives
LoadTractsT(props, maxLen) ==
    /\ tractData = <<>>
    /\ \E n \in 0..maxLen, tieUp \in BOOLEAN :
      \E chosen \in [1..n -> props] :
        LET raw == [k \in 1..n |-> [GEOID    |-> chosen[k].GEOID,
                                    TRACTCE  |-> chosen[k].TRACTCE,
                                    geometry |-> k]]
        IN
        /\ \A j, k \in 1..n : j # k => chosen[j] # chosen[k]
        /\ tractData' = BuildTracts(raw, tieUp)
        /\ lastEvent' = Event("load", Null, "none")
        /\ NoHandlerLogs(featureState)
        /\ UNCHANGED <<storeVars, guardVars, mapState, routerVars, tooltip, hoverTrail,
                       prevTooltip, apiData, resourceVars>>

\* the synthesizer applied to one key
SynthTract == LoadTractsT({KeyedTract(key) : key \in RiskKeys}, 1)

SpecSynth == InitLoad /\ [][SynthTract]_vars

\* the builder applied to a raw collection
LoadTracts == LoadTractsT({CodedTract(code) : code \in TractCodes}, MaxRaw)

SpecLoad == InitLoad /\ [][LoadTracts]_vars

\* useTracts queryFn resolved: the fetched properties are overlaid on
\* BOSTON_TRACTS; every refetch starts from BOSTON_TRACTS again
\* the query resolves to one of responses; MapView renders with the new
\* collection and <Source data={tractData}> hands it to the map
FetchTractsT(responses) ==
    \E response \in responses :
        /\ apiData' = [fetched |-> TRUE, features |-> response]
        /\ tractData' = Overlay(BOSTON_TRACTS, response)
        /\ featureState' = SetData(featureState, tractData')
        /\ lastEvent' = Event("fetch", Null, "none")
        /\ NoHandlerLogs(featureState')
        /\ UNCHANGED <<storeVars, guardVars, mapState, hoveredIdRef, selectedIdRef, cursor,
                       tooltip, hoverTrail, prevTooltip, resourceVars>>

FetchTracts == FetchTractsT(ApiResponses)

SpecData == Init /\ [][FetchTracts]_vars

\* a refresh arriving between pointer events: the container has a size, and
\* responses give every tract the same choice
RefreshResize == ResizeT({SizeStep}, {SizeStep})

RefreshHover == DeckHoverT(FALSE, FALSE, FALSE, TractIds \cup {Null}, {NoPick})

RefreshTracts == FetchTractsT(RefreshResponses)

NextRefresh ==
    \/ RefreshResize
    \/ MapCreated
    \/ LayerAdded
    \/ RefreshHover
    \/ ClearHover
    \/ DeckClick
    \/ RefreshTracts

SpecRefresh == Init /\ [][NextRefresh]_vars

\* useResources queryFn: data.map(mapResource), one record of it
MapResourceT(records) ==
    /\ mappedResource = NotMapped
    /\ \E r \in records :
        /\ rawResource' = r
        /\ mappedResource' = mapResource(r)
        /\ lastEvent' = Event("mapResource", Null, "none")
        /\ NoHandlerLogs(featureState)
        /\ UNCHANGED <<storeVars, guardVars, mapState, routerVars, tooltip, hoverTrail,
                       prevTooltip, apiData, tractData>>

\* a record that is not enriched, of any raw type and store name
MapPlainResource ==
    MapResourceT({PlainResource(type, name) : type \in BackendTypes, name \in StoreNames})

\* a record with or without each enrichment
MapEnrichedResource == MapResourceT(EnrichedResources)

NextResources ==
    \/ MapPlainResource
    \/ MapEnrichedResource

SpecResources == Init /\ [][NextResources]_vars

\* tooltip placement: containers of many widths, the pointer anywhere on the canvas
TipResize == ResizeT(TipWidths, TipHeights)

TipHover == DeckHoverT(FALSE, FALSE, TRUE, {Null}, PickInfos(MaxObjects))

NextTooltip ==
    \/ TipResize
    \/ TipHover

SpecTooltip == Init /\ [][NextTooltip]_vars

\* tooltip transitions with the previous tooltip state recorded in prevTooltip
SwapHover == DeckHoverT(FALSE, TRUE, FALSE, {Null}, PickInfos(MaxObjects))

NextTipSwap ==
    \/ Resize
    \/ SwapHover

SpecTipSwap == Init /\ [][NextTipSwap]_vars

TypeOK ==
    /\ store.mode \in AppModes
    /\ hoveredIdRef \in TractIds \cup {Null}
    /\ selectedIdRef \in TractIds \cup {Null}
    /\ cursor \in {"default", "crosshair"}
    /\ mapState \in {"none", "map", "layer"}

(* ---------------------------------------------------------------------- *)
(* Properties                                                              *)
(* ---------------------------------------------------------------------- *)

HoverFlagged(fs) == {i \in TractIds : fs[i].hover}

SelectedFlagged(fs) == {i \in TractIds : fs[i].selected}

\* C1: at every observation point, the ones between the feature-state writes
\* of one handler call included, at most one polygon id has its hover flag
\* true; and when a handler sets the hover flag of B, the flag of every other
\* polygon A that was hovered before the call was set to false earlier in
\* that call.
C1_AtMostOneHover ==
    /\ \A k \in DOMAIN frames : Cardinality(HoverFlagged(frames[k])) <= 1
    /\ \A j \in DOMAIN writes :
          (writes[j].key = "hover" /\ writes[j].val) =>
              \A a \in HoverFlagged(frames[1]) \ {writes[j].id} :
                  \E i \in 1..(j - 1) : writes[i] = FsWrite(a, "hover", FALSE)

\* hover moved from a polygon to a different one
C1_Witness ==
    /\ lastEvent.kind = "hover"
    /\ \E a \in TractIds, b \in TractIds :
          /\ a # b
          /\ writes = <<FsWrite(a, "hover", FALSE), FsWrite(b, "hover", TRUE)>>

\* C2: at every observation point, the ones between the feature-state writes
\* of one handler call included, at most one polygon id has its selected flag
\* true.
C2_AtMostOneSelected ==
    \A k \in DOMAIN frames : Cardinality(SelectedFlagged(frames[k])) <= 1

\* the selected polygon was clicked again while it is also the hovered one
C2_Witness ==
    /\ lastEvent.kind = "click"
    /\ \E p \in TractIds :
          /\ writes = <<FsWrite(p, "selected", FALSE), FsWrite(p, "selected", TRUE)>>
          /\ featureState[p].hover
          /\ featureState[p].selected
          /\ hoveredIdRef = p
          /\ selectedIdRef = p

\* C3: a click whose DeckGL pick returned an object changes no selected
\* register, writes no selected flag and calls onSelected not at all, whatever
\* polygon lies under the click.
C3_MarkerClickSelectsNothing ==
    [][(lastEvent'.kind = "click" /\ lastEvent'.pick # "none") =>
          /\ selectedIdRef' = selectedIdRef
          /\ \A j \in DOMAIN writes' : writes'[j].key # "selected"
          /\ SelectedFlagged(featureState') = SelectedFlagged(featureState)
          /\ \A j \in DOMAIN notified' : notified'[j].cb # "onSelected"]_vars

\* a marker was clicked over a polygon while the polygon layer exists and
\* another polygon is selected
C3_Witness ==
    /\ lastEvent.kind = "click"
    /\ lastEvent.pick # "none"
    /\ lastEvent.hit # Null
    /\ mapState = "layer"
    /\ selectedIdRef # Null
    /\ selectedIdRef # BOSTON_TRACTS[lastEvent.hit].id

\* C4: after a click on a polygon with no marker picked the store's
\* selectedTract is the clicked polygon's attribute record, and hover and
\* leave events do not change it.
C4_SelectionLocked ==
    [][/\ (lastEvent'.kind = "click" /\ lastEvent'.pick = "none" /\ lastEvent'.hit # Null
              /\ LayerReady(mapState)) =>
                 store'.selectedTract = BOSTON_TRACTS[lastEvent'.hit].properties
       /\ (lastEvent'.kind \in {"hover", "leave"}) =>
                 store'.selectedTract = store.selectedTract]_vars

\* C5: a click with no marker picked where the hit-test finds polygon P sets
\* the selected register to P's id, sets P's selected flag, clears the flag of
\* the polygon selected before, and calls onSelected exactly once, with P's
\* attribute record.
C5_ClickSelects ==
    [][(lastEvent'.kind = "click" /\ lastEvent'.pick = "none" /\ lastEvent'.hit # Null
          /\ mapState = "layer") =>
          LET P == BOSTON_TRACTS[lastEvent'.hit] IN
          /\ selectedIdRef' = P.id
          /\ featureState'[P.id].selected
          /\ \A q \in SelectedFlagged(featureState) \ {P.id} : ~featureState'[q].selected
          /\ notified' = <<[cb |-> "onSelected", arg |-> P.properties]>>]_vars

\* a polygon was clicked while a different one was selected
C5_Witness ==
    /\ lastEvent.kind = "click"
    /\ lastEvent.pick = "none"
    /\ \E p \in TractIds, q \in TractIds :
          /\ p # q
          /\ lastEvent.hit = p
          /\ writes = <<FsWrite(q, "selected", FALSE), FsWrite(BOSTON_TRACTS[p].id, "selected", TRUE)>>

\* three hover results in a row: polygon A, a different polygon B, nothing
HoveredABThenCleared ==
    /\ Len(hoverTrail) >= 3
    /\ LET n == Len(hoverTrail) IN
          /\ hoverTrail[n - 2] # Null
          /\ hoverTrail[n - 1] # Null
          /\ hoverTrail[n - 2] # hoverTrail[n - 1]
          /\ hoverTrail[n] = Null

\* C6: after hovering A, then a different polygon B, then a hover that hits no
\* polygon or clearHover, neither A nor B has its hover flag true and the
\* hovered register is null.
C6_HoverABNull ==
    HoveredABThenCleared =>
        LET n == Len(hoverTrail) IN
        /\ ~featureState[BOSTON_TRACTS[hoverTrail[n - 2]].id].hover
        /\ ~featureState[BOSTON_TRACTS[hoverTrail[n - 1]].id].hover
        /\ hoveredIdRef = Null

\* A, B, then the clearing just happened
C6_Witness ==
    /\ HoveredABThenCleared
    /\ lastEvent.kind \in {"hover", "leave"}
    /\ writes = <<FsWrite(BOSTON_TRACTS[hoverTrail[Len(hoverTrail) - 1]].id, "hover", FALSE)>>

\* C7: every clearHover call ends with the hovered register null, no polygon
\* flagged hover and the cursor value 'default'.
C7_LeaveClears ==
    [][(lastEvent'.kind = "leave") =>
          /\ hoveredIdRef' = Null
          /\ HoverFlagged(featureState') = {}
          /\ cursor' = "default"]_vars

\* clearHover was called while a polygon was hovered
C7_Witness ==
    /\ lastEvent.kind = "leave"
    /\ HoverFlagged(frames[1]) # {}
    /\ notified = <<[cb |-> "onHovered", arg |-> NullTract]>>

\* C8: a hover or click event handled while the map or its 'tract-fill' layer
\* does not exist changes neither register, no feature-state flag, not the
\* cursor, and calls neither onHovered nor onSelected.
C8_NoLayerNoOp ==
    [][(lastEvent'.kind \in {"hover", "click"} /\ mapState # "layer") =>
          /\ hoveredIdRef' = hoveredIdRef
          /\ selectedIdRef' = selectedIdRef
          /\ featureState' = featureState
          /\ writes' = <<>>
          /\ cursor' = cursor
          /\ notified' = <<>>
          /\ store' = store]_vars

\* a hover over a polygon arrived while the map exists without its layer
C8_Witness ==
    /\ lastEvent.kind = "hover"
    /\ lastEvent.hit # Null
    /\ mapState = "map"

\* C9: DeckGL is constructed only after an observation that reported
\* width > 0 and height > 0.
C9_ConstructedOnlyAfterNonZero ==
    (deckMounted \/ deckConstructions > 0 \/ containerReady \/ containerReadyRef) => sawNonZero

\* DeckGL was just constructed, on a non-zero observation
C9_Witness ==
    /\ lastEvent.kind = "resize"
    /\ deckMounted
    /\ deckConstructions = 1
    /\ mapState = "none"
    /\ containerSize.w > 0
    /\ containerSize.h > 0

\* C10: the guard becomes ready on the first observation with non-zero width
\* and height, never returns to unmeasured within a mount, and a resize
\* observation made while ready changes only the live container size: DeckGL
\* stays mounted and is not constructed again.
C10_ReadyOneWay ==
    [][/\ (containerReady /\ lastEvent'.kind # "remount") => containerReady'
       /\ (lastEvent'.kind = "resize" /\ ~sawNonZero
              /\ containerSize'.w > 0 /\ containerSize'.h > 0) =>
                 (~containerReady /\ containerReady' /\ deckMounted' /\ deckConstructions' = 1)
       /\ (lastEvent'.kind = "resize" /\ containerReady) =>
                 /\ deckMounted'
                 /\ deckConstructions' = deckConstructions
                 /\ UNCHANGED <<store, viewMode, containerReadyRef, sawNonZero, mapState,
                                hoveredIdRef, selectedIdRef, featureState, cursor, tooltip>>]_vars

\* a resize reporting a zero dimension arrived after DeckGL was constructed
C10_Witness ==
    /\ lastEvent.kind = "resize"
    /\ containerReady
    /\ deckMounted
    /\ deckConstructions = 1
    /\ (containerSize.w = 0 \/ containerSize.h = 0)

C12_HitTestAndPickBothRun ==
    [][lastEvent'.kind = "hover" =>
          /\ tooltip'.kind = lastEvent'.pick
          /\ (mapState = "layer" /\ lastEvent'.hit # Null) =>
                /\ hoveredIdRef' = lastEvent'.hit
                /\ HoverFlagged(featureState') = {lastEvent'.hit}
                /\ cursor' = "crosshair"]_vars

\* a hover picked a resource marker lying over polygon 1: the polygon is
\* flagged and the resource tooltip is set
C12_Witness ==
    /\ lastEvent.kind = "hover"
    /\ lastEvent.pick = "resource"
    /\ lastEvent.hit = 1
    /\ hoveredIdRef = 1
    /\ featureState[1].hover
    /\ tooltip.kind = "resource"

\* C13: the tooltip state is always exactly one of none, a resource tooltip
\* and a transit-stop tooltip, with the fields of that variant and no other;
\* after a hover event it is the variant of the picked object's layer built
\* from the picked object, whatever the tooltip was before.
C13_TooltipOneVariant ==
    /\ [](\/ tooltip = [kind |-> "none"]
          \/ /\ tooltip.kind = "resource"
             /\ DOMAIN tooltip = {"kind", "resource", "position", "distanceKm"}
          \/ /\ tooltip.kind = "mbta"
             /\ DOMAIN tooltip = {"kind", "name", "vehicleType", "position"})
    /\ [][lastEvent'.kind = "hover" =>
             /\ lastEvent'.pick = "none" => tooltip' = [kind |-> "none"]
             /\ lastEvent'.pick = "resource" =>
                   /\ tooltip'.kind = "resource"
                   /\ tooltip'.resource = lastEvent'.object
             /\ lastEvent'.pick = "mbta" =>
                   /\ tooltip'.kind = "mbta"
                   /\ tooltip'.name = lastEvent'.object.name
                   /\ tooltip'.vehicleType = lastEvent'.object.vehicle_type]_vars

\* the pointer moved from a resource marker to a transit stop
C13_Witness ==
    /\ lastEvent.kind = "hover"
    /\ prevTooltip.kind = "resource"
    /\ tooltip.kind = "mbta"
    /\ DOMAIN tooltip = {"kind", "name", "vehicleType", "position"}

\* C14: the effective cursor is 'grabbing' whenever DeckGL is dragging,
\* otherwise 'pointer' whenever DeckGL hovers a marker, otherwise the router's
\* value, which is 'crosshair' while a polygon is hovered and 'default'
\* otherwise.
C14_CursorPriority ==
    \A isDragging \in BOOLEAN, isHovering \in BOOLEAN :
        LET effective == getCursor(isDragging, isHovering, cursor) IN
        /\ isDragging => effective = "grabbing"
        /\ (~isDragging /\ isHovering) => effective = "pointer"
        /\ (~isDragging /\ ~isHovering) =>
              effective = IF hoveredIdRef # Null THEN "crosshair" ELSE "default"

\* a marker and a polygon are both under the pointer
C14_Witness ==
    /\ lastEvent.kind = "hover"
    /\ lastEvent.pick = "mbta"
    /\ hoveredIdRef # Null
    /\ cursor = "crosshair"
    /\ getCursor(TRUE, TRUE, cursor) = "grabbing"
    /\ getCursor(FALSE, TRUE, cursor) = "pointer"

\* C15: a pointer-move event changes only the renderer's feature-state and
\* the hover register: it writes nothing to React state (cursor, tooltip) or
\* to the store and calls no store-writing callback.
C15_NoReactiveWrites ==
    [][lastEvent'.kind = "hover" =>
          /\ cursor' = cursor
          /\ tooltip' = tooltip
          /\ store' = store
          /\ notified' = <<>>]_vars

C17_DependentMetrics ==
    tractData # <<>> =>
        LET p == tractData[1].properties
            risk == p.food_risk_score
            hundredth == Unit \div 100
            \* v is x rounded to a hundredth, where x * 100 = num / Unit
            IsRound2(v, num) ==
                /\ v % hundredth = 0
                /\ 2 * num - Unit <= 2 * Unit * (v \div hundredth)
                /\ 2 * Unit * (v \div hundredth) <= 2 * num + Unit
        IN
        /\ IsRound2(p.equity_score, 95 * Unit - 100 * risk)
        /\ IsRound2(p.supply_score, 90 * Unit - 75 * risk)
        /\ \A mix \in 0..99, tieUp \in BOOLEAN :
              LET q == SynthTable[mix][tieUp] IN
              /\ q.food_risk_score > risk =>
                    (q.equity_score <= p.equity_score /\ q.supply_score <= p.supply_score)
              /\ q.food_risk_score < risk =>
                    (q.equity_score >= p.equity_score /\ q.supply_score >= p.supply_score)
        /\ \A v \in {p.equity_score, p.transit_coverage, p.food_insecurity_rate,
                     p.poverty_rate, p.snap_rate, p.vulnerability_index,
                     p.need_score, p.supply_score} : 0 <= v /\ v <= Unit

\* a tract synthesized in the top band: its equity and supply are strictly
\* below those of the lowest risk
C17_Witness ==
    /\ tractData # <<>>
    /\ tractData[1].properties.food_risk_score >= (70 * Unit) \div 100
    /\ tractData[1].properties.equity_score < SynthTable[0][TRUE].equity_score
    /\ tractData[1].properties.supply_score < SynthTable[0][TRUE].supply_score

\* C18: after a live-data overlay every numeric metric of every feature
\* handed to the map lies in [0,1].
C18_MetricsClamped ==
    \A k \in DOMAIN tractData :
        LET p == tractData[k].properties IN
        \A v \in {p.food_risk_score, p.equity_score, p.transit_coverage,
                  p.food_insecurity_rate, p.poverty_rate, p.snap_rate} :
            0 <= v /\ v <= Unit

\* C19: a live-data overlay keeps the number and order of the features and,
\* for every feature, its feature-level id, its geometry and its business
\* key, before and after every refresh; a feature whose business key is not
\* in the fetched data is the bundled feature unchanged.
C19_OverlayKeepsIdentity ==
    /\ [](/\ Len(tractData) = Len(BOSTON_TRACTS)
          /\ \A k \in DOMAIN tractData :
                /\ tractData[k].id = BOSTON_TRACTS[k].id
                /\ tractData[k].geometry = BOSTON_TRACTS[k].geometry
                /\ tractData[k].properties.tract_id = BOSTON_TRACTS[k].properties.tract_id
                /\ (\A j \in DOMAIN apiData.features :
                       apiData.features[j].properties.tract_id
                           # BOSTON_TRACTS[k].properties.tract_id)
                      => tractData[k] = BOSTON_TRACTS[k])
    /\ [][/\ DOMAIN tractData' = DOMAIN tractData
          /\ \A k \in DOMAIN tractData :
                /\ tractData'[k].id = tractData[k].id
                /\ tractData'[k].geometry = tractData[k].geometry]_vars

\* a response gave feature 1 new attributes under another feature id and
\* another geometry, and had nothing for feature 2
C19_Witness ==
    /\ apiData.fetched
    /\ \E j \in DOMAIN apiData.features :
          /\ apiData.features[j].properties.tract_id = BOSTON_TRACTS[1].properties.tract_id
          /\ apiData.features[j].id # BOSTON_TRACTS[1].id
          /\ apiData.features[j].geometry # BOSTON_TRACTS[1].geometry
    /\ tractData[1].properties # BOSTON_TRACTS[1].properties
    /\ tractData[1].id = BOSTON_TRACTS[1].id
    /\ tractData[2] = BOSTON_TRACTS[2]

\* C20: the ids given to the features at load time are positive integers and
\* pairwise distinct across the features of the collection.
C20_IdsPositiveDistinct ==
    \A j, k \in DOMAIN tractData :
        /\ tractData[j].id > 0
        /\ j # k => tractData[j].id # tractData[k].id

\* the feature-level ids of a collection
FeatureIds(data) == {data[k].id : k \in DOMAIN data}

\* C21: a refresh of the polygon data leaves the hovered and the selected
\* register as they were; every id of the old data is an id of the new data,
\* so a hovered or selected id still exists after the refresh (no refresh
\* removes a polygon), and it is the one polygon flagged hover, respectively
\* selected, on the new data.
C21_RefreshKeepsRegisters ==
    [][(lastEvent'.kind = "fetch") =>
          /\ hoveredIdRef' = hoveredIdRef
          /\ selectedIdRef' = selectedIdRef
          /\ FeatureIds(tractData') = FeatureIds(tractData)
          /\ (hoveredIdRef # Null =>
                 /\ hoveredIdRef' \in FeatureIds(tractData')
                 /\ HoverFlagged(featureState') = {hoveredIdRef'})
          /\ (selectedIdRef # Null =>
                 /\ selectedIdRef' \in FeatureIds(tractData')
                 /\ SelectedFlagged(featureState') = {selectedIdRef'})]_vars

\* a response with new attributes for the hovered tract 1 and the selected
\* tract 2 arrived
C21_Witness ==
    /\ lastEvent.kind = "fetch"
    /\ hoveredIdRef = tractData[1].id
    /\ selectedIdRef = tractData[2].id
    /\ tractData[1].properties # BOSTON_TRACTS[1].properties
    /\ tractData[2].properties # BOSTON_TRACTS[2].properties
    /\ featureState[hoveredIdRef].hover
    /\ featureState[selectedIdRef].selected

\* the record given to mapResource carries no category of the backend, so
\* the category of the result is the classifier's
Classified == mappedResource # NotMapped /\ ~rawResource.category.some

\* the raw type and the store name as the classifier compares them
NormalType == trim(toLowerCase(rawResource.type))

NormalName == trim(toLowerCase(rawResource.name))

\* the raw type is one of the backend's type tokens
TokenRule == NormalType \in {<<"p", "a", "n", "t", "r", "y">>, <<"m", "o", "b", "i", "l", "e">>, <<"m", "a", "r", "k", "e", "t">>}

\* the raw type matches a store_type phrase
PhraseRule ==
    \/ includes(NormalType, <<"c", "o", "n", "v", "e", "n", "i", "e", "n", "c", "e">>)
    \/ includes(NormalType, <<"s", "u", "p", "e", "r", " ", "s", "t", "o", "r", "e">>)
    \/ NormalType = <<"s", "u", "p", "e", "r", "m", "a", "r", "k", "e", "t">>
    \/ includes(NormalType, <<"w", "h", "o", "l", "e", "s", "a", "l", "e">>)
    \/ includes(NormalType, <<"c", "l", "u", "b">>)
    \/ includes(NormalType, <<"f", "a", "r", "m", "e", "r", "s">>)
    \/ includes(NormalType, <<"f", "a", "r", "m", " ", "m", "a", "r", "k", "e", "t">>)
    \/ includes(NormalType, <<"g", "r", "o", "c", "e", "r", "y">>)

\* the store name matches a chain name
ChainRule == match(NormalName, ConvenienceChains \cup WholesaleChains \cup SupermarketChains)

\* C22: resolving a category never fails: mapResource ends without an error
\* for every backend record, the category of the result is one of the seven
\* categories, and the display fields the backend did not supply are those of
\* that category's tier; the classifier's result for the record's type and
\* name is one of the seven categories.
C22_CategoryResolves ==
    mappedResource # NotMapped =>
        /\ classifyStoreType(rawResource.type, rawResource.name) \in StoreCategories
        /\ ~mappedResource.threw
        /\ mappedResource.category \in StoreCategories
        /\ (~rawResource.price_tier.some =>
               mappedResource.priceTier = STORE_HIERARCHY[mappedResource.category].priceTier)
        /\ (~rawResource.price_dots.some =>
               mappedResource.priceDots = STORE_HIERARCHY[mappedResource.category].priceDots)

\* C23: the classifier's rules apply in the order type token, store_type
\* phrase, chain name, default: a type token decides whatever the name is, a
\* phrase in the type decides whatever chain the name holds, a chain name
\* decides only when no token and no phrase matched, and grocery is the result
\* when nothing matched; type 'pantry' with name '7-Eleven' is pantry, type
\* 'Convenience Store' is convenience, an empty type with name '7-Eleven
\* Boston' is convenience, 'unknown-garbage' with an empty name is grocery.
C23_RuleOrder ==
    Classified =>
        LET category == mappedResource.category
            t == NormalType
            n == NormalName
            tokenRule == TokenRule
            phraseRule == ~tokenRule /\ PhraseRule
            chainRule == ~tokenRule /\ ~phraseRule /\ ChainRule
        IN
        /\ (t = <<"p", "a", "n", "t", "r", "y">> => category = "pantry")
        /\ (t = <<"m", "o", "b", "i", "l", "e">> => category = "mobile")
        /\ (t = <<"m", "a", "r", "k", "e", "t">> => category = "farmersmarket")
        /\ (phraseRule =>
               /\ category \in {"convenience", "supermarket", "wholesale", "farmersmarket",
                                "grocery"}
               /\ (includes(t, <<"c", "o", "n", "v", "e", "n", "i", "e", "n", "c", "e">>) => category = "convenience")
               /\ (category = "grocery" => includes(t, <<"g", "r", "o", "c", "e", "r", "y">>)))
        /\ (chainRule =>
               /\ category \in {"convenience", "wholesale", "supermarket"}
               /\ (category = "convenience" <=> match(n, ConvenienceChains)))
        /\ (~tokenRule /\ ~phraseRule /\ ~chainRule => category = "grocery")
        /\ (rawResource.type = <<"p", "a", "n", "t", "r", "y">> /\ rawResource.name = <<"7", "-", "E", "l", "e", "v", "e", "n">>
               => category = "pantry")
        /\ (rawResource.type = <<"C", "o", "n", "v", "e", "n", "i", "e", "n", "c", "e", " ", "S", "t", "o", "r", "e">> => category = "convenience")
        /\ (rawResource.type = <<>> /\ rawResource.name = <<"7", "-", "E", "l", "e", "v", "e", "n", " ", "B", "o", "s", "t", "o", "n">>
               => category = "convenience")
        /\ (rawResource.type = <<"u", "n", "k", "n", "o", "w", "n", "-", "g", "a", "r", "b", "a", "g", "e">> /\ rawResource.name = <<>>
               => category = "grocery")

\* type 'Convenience Store' with name 'Whole Foods Market' was classified: the
\* phrase in the type and a chain of another category in the name
C23_Witness ==
    /\ Classified
    /\ rawResource.type = <<"C", "o", "n", "v", "e", "n", "i", "e", "n", "c", "e", " ", "S", "t", "o", "r", "e">>
    /\ rawResource.name = <<"W", "h", "o", "l", "e", " ", "F", "o", "o", "d", "s", " ", "M", "a", "r", "k", "e", "t">>
    /\ mappedResource.category = "convenience"

\* C24: the price score of a mapped record is the backend's when the record
\* carries one; otherwise the chain's when the name holds a chain of the
\* price table, whatever the category's default is; otherwise the default of
\* the record's category.
C24_PricePrecedence ==
    (mappedResource # NotMapped /\ ~mappedResource.threw) =>
        LET chainScore == getChainPriceScore(rawResource.name) IN
        /\ (rawResource.price_score.some =>
               mappedResource.priceScore = rawResource.price_score.value)
        /\ (~rawResource.price_score.some /\ chainScore.some =>
               mappedResource.priceScore = chainScore.value)
        /\ (~rawResource.price_score.some /\ ~chainScore.some =>
               mappedResource.priceScore = STORE_HIERARCHY[mappedResource.category].priceScore)
        /\ (~rawResource.price_score.some /\ rawResource.name = <<"7", "-", "E", "l", "e", "v", "e", "n">> =>
               mappedResource.priceScore = 95)

\* a grocery named '7-Eleven' without a price score of the backend was mapped:
\* the chain's 0.95 and the category's 0.50 differ
C24_Witness ==
    /\ mappedResource # NotMapped
    /\ ~mappedResource.threw
    /\ ~rawResource.price_score.some
    /\ rawResource.name = <<"7", "-", "E", "l", "e", "v", "e", "n">>
    /\ mappedResource.category = "grocery"
    /\ mappedResource.priceScore = 95
    /\ STORE_HIERARCHY["grocery"].priceScore = 50

\* C25: the paint of every polygon follows from its two flags, selected
\* before hover: selected (hovered or not) gives fill opacity 0.85, border
\* width 3, the accent colour and border opacity 1.0; hovered and not selected
\* gives 0.75, 2, near-white and 1.0; neither gives 0.60, 0.8, near-transparent
\* white and 0.3.
C25_PaintRules ==
    \A i \in TractIds :
        LET fs == featureState[i] IN
        /\ (fs.selected =>
               Paint(fs) = [fillOpacity |-> 85, borderColor |-> "#f5a623",
                            borderWidth |-> 30, borderOpacity |-> 100])
        /\ (fs.hover /\ ~fs.selected =>
               Paint(fs) = [fillOpacity |-> 75, borderColor |-> "rgba(255,255,255,0.9)",
                            borderWidth |-> 20, borderOpacity |-> 100])
        /\ (~fs.hover /\ ~fs.selected =>
               Paint(fs) = [fillOpacity |-> 60, borderColor |-> "rgba(255,255,255,0.15)",
                            borderWidth |-> 8, borderOpacity |-> 30])

\* one polygon is hovered and selected, another one only hovered before and
\* now in neither state
C25_Witness ==
    /\ hoveredIdRef # Null
    /\ hoveredIdRef = selectedIdRef
    /\ featureState[hoveredIdRef] = [hover |-> TRUE, selected |-> TRUE]
    /\ \E i \in TractIds : featureState[i] = [hover |-> FALSE, selected |-> FALSE]

\* C26: in every state the registers agree with the renderer's flags: the
\* polygons flagged hover are exactly the one in the hovered register (none
\* when it is null), and the polygons flagged selected are exactly the one in
\* the selected register (none when it is null).
C26_RegistersMatchFlags ==
    /\ HoverFlagged(featureState) = (IF hoveredIdRef = Null THEN {} ELSE {hoveredIdRef})
    /\ SelectedFlagged(featureState) = (IF selectedIdRef = Null THEN {} ELSE {selectedIdRef})

\* the pointer went from one polygon to another while a third one is selected
C26_Witness ==
    /\ lastEvent.kind = "hover"
    /\ Len(writes) = 2
    /\ hoveredIdRef # Null
    /\ selectedIdRef # Null
    /\ selectedIdRef # hoveredIdRef
    /\ selectedIdRef # writes[1].id

\* C27: the two registers are independent: a click changes neither the
\* hovered register nor the hover flag of any polygon; a hover event and
\* clearHover change neither the selected register nor the selected flag of
\* any polygon; clearHover leaves the tooltip state as it was.
C27_RegistersIndependent ==
    [][/\ (lastEvent'.kind = "click" =>
              /\ hoveredIdRef' = hoveredIdRef
              /\ HoverFlagged(featureState') = HoverFlagged(featureState))
       /\ (lastEvent'.kind \in {"hover", "leave"} =>
              /\ selectedIdRef' = selectedIdRef
              /\ SelectedFlagged(featureState') = SelectedFlagged(featureState))
       /\ (lastEvent'.kind = "leave" => tooltip' = tooltip)]_vars

\* the hovered polygon was clicked while another one was selected: both
\* selected flags were written and the polygon is still flagged hover
C27_Witness ==
    /\ lastEvent.kind = "click"
    /\ Len(writes) = 2
    /\ hoveredIdRef # Null
    /\ hoveredIdRef = selectedIdRef
    /\ featureState[hoveredIdRef].hover

\* C28: in every state the cursor value is 'crosshair' exactly when the
\* hovered register is non-null and 'default' exactly when it is null, and
\* the hovered tract the application holds from the last hover notification
\* is null exactly when the hovered register is null.
C28_CursorAndNotificationFollowRegister ==
    /\ cursor = (IF hoveredIdRef = Null THEN "default" ELSE "crosshair")
    /\ (store.hoveredTract = NullTract) <=> (hoveredIdRef = Null)

\* C29: a click that picks no marker at a position over no polygon leaves the
\* selected register and the selected flag of every polygon as they were and
\* calls onSelected not at all; and no step of a mount changes the selected
\* register from a polygon to null (only a new mount starts with null).
C29_MissClickKeepsSelection ==
    [][/\ (lastEvent'.kind = "click" /\ lastEvent'.pick = "none" /\ lastEvent'.hit = Null =>
              /\ selectedIdRef' = selectedIdRef
              /\ SelectedFlagged(featureState') = SelectedFlagged(featureState)
              /\ notified' = <<>>
              /\ store'.selectedTract = store.selectedTract)
       /\ (lastEvent'.kind # "remount" /\ selectedIdRef # Null =>
              selectedIdRef' # Null)]_vars

\* a click over no polygon came while a polygon was selected
C29_Witness ==
    /\ lastEvent.kind = "click"
    /\ lastEvent.pick = "none"
    /\ lastEvent.hit = Null
    /\ selectedIdRef # Null
    /\ SelectedFlagged(featureState) = {selectedIdRef}
    /\ writes = <<>>

\* C30: for every polygon feature of the collection handed to the map, as
\* built and after every overlay, the id inside the attribute record equals
\* the feature-level id, and the record of every hover and selection
\* notification carries the id of the polygon that was flagged.
C30_MirroredIdEqualsFeatureId ==
    /\ \A k \in DOMAIN tractData : tractData[k].properties.id = tractData[k].id
    /\ \A j \in DOMAIN notified :
          /\ (notified[j].cb = "onHovered" /\ notified[j].arg # NullTract =>
                 notified[j].arg.id = hoveredIdRef)
          /\ (notified[j].cb = "onSelected" => notified[j].arg.id = selectedIdRef)

====
